---- MODULE Spec2Model ----
(***************************************************************************)
(* The scheduling engine of lib/scheduling-algorithms.ts: fcfsScheduling,  *)
(* sjfScheduling, srtfScheduling, roundRobinScheduling, priorityScheduling *)
(* and calculateMetrics.  One run of one scheduling function is modelled:  *)
(* Init is the state just after the function's local declarations, each    *)
(* loop iteration is one action, and Return is the final                   *)
(* `return calculateMetrics(...)`.                                         *)
(***************************************************************************)
EXTENDS Integers, Sequences, FiniteSets, TLC

(* ------------------------------ bounds -------------------------------- *)
MaxProcs == 2

MaxArrival == 2

MaxBurst == 3

MaxPrio == 2

MaxQuantum == 2

\* a burst long enough for two such processes to outlast the time ceiling
LongBurst == 101

\* the burst of every process of a batch (InitBatch)
BatchBurst == 2

(* --------------------------- program constants ------------------------ *)
\* the "+ 100" of maxTime in srtfScheduling / preemptivePriorityScheduling
SafetyMargin == 100

\* useState<number>(2): the page's initial time quantum
InitialQuantum == 2

\* useState(1): the chart's initial animationSpeed
InitialSpeed == 1

\* the chart's clock counts in steps of 0.1 * animationSpeed: it is kept in tenths
Tenths == 10

VARIABLES
    algorithm,          \* which exported function was called
    isPreemptive,       \* priorityScheduling's flag
    timeQuantum,        \* roundRobinScheduling's timeQuantum
    processes,          \* the argument: the caller's process array
    sortedProcesses,    \* fcfs: [...processes].sort(...)
    mapIndex,           \* fcfs: position of sortedProcesses.map
    remainingProcesses, \* sjf / non-preemptive priority: [...processes]
    processQueue,       \* srtf / rr / preemptive priority: copies with remainingTime
    readyQueue,         \* rr: references into processQueue (as indices)
    completedProcesses, \* completedProcesses (fcfs: the array built by map)
    ganttChart,
    currentTime,
    currentProcess,     \* srtf / preemptive priority: id of the running process, 0 = null
    result,             \* the returned SchedulingResult, NoResult before return
    pc,                 \* "loop" inside the function, "done" after return,
                        \* "idle" on the page before and between runs
    validationError,    \* the page's validationError ("" for a direct call)
    chart               \* the page's isRunning and the Gantt chart's currentTime,
                        \* animationSpeed and isAnimating

vars == <<algorithm, isPreemptive, timeQuantum, processes, sortedProcesses, mapIndex,
          remainingProcesses, processQueue, readyQueue, completedProcesses,
          ganttChart, currentTime, currentProcess, result, pc, validationError,
          chart>>

(* ------------------------------ helpers ------------------------------- *)
\* the start of an interval taken from the arrival time alone
MaxSecond(a, b) == b

Max(a, b) == IF a >= b THEN a ELSE b

\* a dispatch of a whole quantum, whatever time remains
WholeQuantum(a, b) == a

Min(a, b) == IF a <= b THEN a ELSE b

RECURSIVE SumSeq(_)
\* nums.reduce((sum, x) => sum + x, 0)
SumSeq(s) == IF s = <<>> THEN 0 ELSE Head(s) + SumSeq(Tail(s))

RECURSIVE ReduceFrom(_, _, _)
\* arr.reduce((best, cur) => key(cur) < key(best) ? cur : best), continued from
\* index i with accumulator arr[best]; keys[i] is key(arr[i])
ReduceFrom(keys, i, best) ==
    IF i > Len(keys) THEN best
    ELSE ReduceFrom(keys, i + 1, IF keys[i] < keys[best] THEN i ELSE best)

\* the reduce that keeps its first element whatever the keys
ReduceMinKeepFirst(keys) == 1

\* index of the element arr.reduce(...) returns (no initial value, arr non-empty)
ReduceMin(keys) == ReduceFrom(keys, 2, 1)

\* Math.max(...nums) on a non-empty array
MaxOf(nums) == CHOOSE m \in {nums[i] : i \in 1..Len(nums)} :
                   \A j \in 1..Len(nums) : nums[j] <= m

\* the clock moved to the latest of the arrivals, not the earliest
MinOfLatest(nums) == MaxOf(nums)

\* the minimum taken to be 0 whatever the numbers
MinOfZero(nums) == 0

\* Math.min(...nums) on a non-empty array
MinOf(nums) == CHOOSE m \in {nums[i] : i \in 1..Len(nums)} :
                   \A j \in 1..Len(nums) : m <= nums[j]

\* arr.indexOf(x) for records with unique ids; arr.splice(k, 1)
IndexOfId(s, id) == CHOOSE k \in 1..Len(s) : s[k].id = id

\* the splice removing the head of the array instead of the element found
RemoveAtHead(s, k) == Tail(s)

RemoveAt(s, k) == [j \in 1..(Len(s) - 1) |-> IF j < k THEN s[j] ELSE s[j + 1]]

RECURSIVE InsertSortedBeforeEqual(_, _)
\* the insertion that puts a process before those of equal arrival time
InsertSortedBeforeEqual(s, p) ==
    IF s = <<>> THEN <<p>>
    ELSE IF p.arrivalTime <= Head(s).arrivalTime THEN <<p>> \o s
    ELSE <<Head(s)>> \o InsertSortedBeforeEqual(Tail(s), p)

RECURSIVE InsertSorted(_, _)
InsertSorted(s, p) ==
    IF s = <<>> THEN <<p>>
    ELSE IF p.arrivalTime < Head(s).arrivalTime THEN <<p>> \o s
    ELSE <<Head(s)>> \o InsertSorted(Tail(s), p)

RECURSIVE SortByArrival(_)
\* [...processes].sort((a, b) => a.arrivalTime - b.arrivalTime): a stable sort
SortByArrival(s) ==
    IF s = <<>> THEN <<>>
    ELSE InsertSorted(SortByArrival(SubSeq(s, 1, Len(s) - 1)), s[Len(s)])

(* ------------------------------ records ------------------------------- *)
\* arr.map((p) => p.arrivalTime)
ArrivalTimes(s) == [i \in 1..Len(s) |-> s[i].arrivalTime]

\* arr.map((p) => p.burstTime)
BurstTimes(s) == [i \in 1..Len(s) |-> s[i].burstTime]

\* arr.map((p) => p.remainingTime)
RemainingTimes(s) == [i \in 1..Len(s) |-> s[i].remainingTime]

\* arr.map((p) => p.priority || 0); a missing priority is kept as 0
Priorities(s) == [i \in 1..Len(s) |-> s[i].priority]

\* arr.map((p) => p.waitingTime || 0)
WaitingTimes(s) == [i \in 1..Len(s) |-> s[i].waitingTime]

\* arr.map((p) => p.turnaroundTime || 0)
TurnaroundTimes(s) == [i \in 1..Len(s) |-> s[i].turnaroundTime]

\* the map taking the start of each interval instead of its end
EndTimesAsStartTimes(gantt) == [i \in 1..Len(gantt) |-> gantt[i].startTime]

\* ganttChart.map((g) => g.endTime)
EndTimes(gantt) == [i \in 1..Len(gantt) |-> gantt[i].endTime]

\* processes.map((p) => p.arrivalTime + p.burstTime)
ArrivalPlusBursts(s) == [i \in 1..Len(s) |-> s[i].arrivalTime + s[i].burstTime]

\* { ...p, remainingTime: p.burstTime }
WithRemaining(p) == [remainingTime |-> p.burstTime] @@ p

\* the record with the waiting time stored as turnaround and the reverse
CompletedSwapped(p, completion, turnaround, waiting) ==
    [completionTime |-> completion, turnaroundTime |-> waiting,
     waitingTime |-> turnaround] @@ p

\* { ...p, completionTime, turnaroundTime, waitingTime }
Completed(p, completion, turnaround, waiting) ==
    [completionTime |-> completion, turnaroundTime |-> turnaround,
     waitingTime |-> waiting] @@ p

\* { processId, startTime, endTime, color }: the colour is a function of the id
GanttItem(id, start, end) == [processId |-> id, startTime |-> start, endTime |-> end]

(* ------------------------------ metrics ------------------------------- *)
\* a JavaScript number that is the quotient num / den of two integers, kept exact
Fraction(num, den) == [kind |-> "fraction", num |-> num, den |-> den]

NaN == [kind |-> "NaN", num |-> 0, den |-> 0]

PosInfinity == [kind |-> "Infinity", num |-> 1, den |-> 0]

NegZero == [kind |-> "-0", num |-> 0, den |-> 1]

\* num / den for integers num >= 0 and den >= 0
Divide(num, den) ==
    IF den # 0 THEN Fraction(num, den)
    ELSE IF num = 0 THEN NaN ELSE PosInfinity

\* calculateMetrics(processes, ganttChart)
calculateMetrics(procs, gantt) ==
    LET totalWaitingTime == SumSeq(WaitingTimes(procs))
        totalTurnaroundTime == SumSeq(TurnaroundTimes(procs))
        totalBurstTime == SumSeq(BurstTimes(procs))
        n == Len(procs)
    IN  IF gantt = <<>>
        THEN \* Math.max() of no arguments is -Infinity; x / -Infinity is -0
             [kind |-> "result", ganttChart |-> gantt, processes |-> procs,
              averageWaitingTime |-> Divide(totalWaitingTime, n),
              averageTurnaroundTime |-> Divide(totalTurnaroundTime, n),
              cpuUtilization |-> NegZero,
              throughput |-> NegZero]
        ELSE LET totalTime == MaxOf(EndTimes(gantt))
             IN [kind |-> "result", ganttChart |-> gantt, processes |-> procs,
                 averageWaitingTime |-> Divide(totalWaitingTime, n),
                 averageTurnaroundTime |-> Divide(totalTurnaroundTime, n),
                 cpuUtilization |-> Divide(totalBurstTime * 100, totalTime),
                 throughput |-> Divide(n, totalTime)]

\* no SchedulingResult yet: the function has not returned
NoResult == [kind |-> "none"]

(* ------------------------------- inputs ------------------------------- *)
\* a process array of length n with ids 1..n in input order; priority 0 stands
\* for a record without the optional priority field
ProcessArrays(n, arrivals, bursts, prios) ==
    {[i \in 1..n |-> [id |-> i, arrivalTime |-> a[i], burstTime |-> b[i],
                      priority |-> pr[i]]] :
        a \in [1..n -> arrivals], b \in [1..n -> bursts], pr \in [1..n -> prios]}

\* the calls of the five exported functions: which one, with which parameter
Calls ==
    {[algorithm |-> alg, isPreemptive |-> FALSE, timeQuantum |-> 0] :
        alg \in {"FCFS", "SJF", "SRTF"}}
    \cup {[algorithm |-> "RR", isPreemptive |-> FALSE, timeQuantum |-> q] :
        q \in 0..MaxQuantum}
    \cup {[algorithm |-> "PRIORITY", isPreemptive |-> b, timeQuantum |-> 0] :
        b \in BOOLEAN}

PriosFor(alg) == IF alg = "PRIORITY" THEN 1..MaxPrio ELSE {0}

TickDriven == algorithm = "SRTF" \/ (algorithm = "PRIORITY" /\ isPreemptive)

RunToCompletion == algorithm = "SJF" \/ (algorithm = "PRIORITY" /\ ~isPreemptive)

\* maxTime = Math.max(...processes.map((p) => p.arrivalTime + p.burstTime)) + 100
maxTime == MaxOf(ArrivalPlusBursts(processes)) + SafetyMargin

\* the locals of a call whose clock is a variable of the module, left at the
\* value an earlier call gave it
EntryWithLeftoverClock(alg, preemptive, procs) ==
    [sortedProcesses |-> IF alg = "FCFS" THEN SortByArrival(procs) ELSE <<>>,
     mapIndex |-> 1,
     remainingProcesses |->
        IF alg = "SJF" \/ (alg = "PRIORITY" /\ ~preemptive) THEN procs ELSE <<>>,
     processQueue |->
        IF alg \in {"SRTF", "RR"} \/ (alg = "PRIORITY" /\ preemptive)
        THEN [i \in 1..Len(procs) |-> WithRemaining(procs[i])] ELSE <<>>,
     readyQueue |->
        IF alg = "RR"
        THEN SelectSeq([i \in 1..Len(procs) |-> i], LAMBDA i : procs[i].arrivalTime = 0)
        ELSE <<>>,
     completedProcesses |-> <<>>,
     ganttChart |-> <<>>,
     currentTime |-> IF procs = <<>> THEN 0 ELSE procs[Len(procs)].arrivalTime + 1,
     currentProcess |-> 0]

\* the local declarations of the called function: the value each local starts with
Entry(alg, preemptive, procs) ==
    [sortedProcesses |-> IF alg = "FCFS" THEN SortByArrival(procs) ELSE <<>>,
     mapIndex |-> 1,
     remainingProcesses |->
        IF alg = "SJF" \/ (alg = "PRIORITY" /\ ~preemptive) THEN procs ELSE <<>>,
     processQueue |->
        IF alg \in {"SRTF", "RR"} \/ (alg = "PRIORITY" /\ preemptive)
        THEN [i \in 1..Len(procs) |-> WithRemaining(procs[i])] ELSE <<>>,
     \* rr: processQueue.forEach((p) => { if (p.arrivalTime === 0) readyQueue.push(p) })
     readyQueue |->
        IF alg = "RR"
        THEN SelectSeq([i \in 1..Len(procs) |-> i], LAMBDA i : procs[i].arrivalTime = 0)
        ELSE <<>>,
     completedProcesses |-> <<>>,
     ganttChart |-> <<>>,
     currentTime |-> 0,
     currentProcess |-> 0]

\* the page's isRunning and the chart's three useState values as the page loads
InitialChart ==
    [isRunning |-> FALSE, currentTime |-> 0, animationSpeed |-> InitialSpeed,
     isAnimating |-> FALSE]

\* the state after the local declarations of the called function
Start(call, procs) ==
    /\ algorithm = call.algorithm
    /\ isPreemptive = call.isPreemptive
    /\ timeQuantum = call.timeQuantum
    /\ processes = procs
    /\ LET entry == Entry(call.algorithm, call.isPreemptive, procs)
       IN /\ sortedProcesses = entry.sortedProcesses
          /\ mapIndex = entry.mapIndex
          /\ remainingProcesses = entry.remainingProcesses
          /\ processQueue = entry.processQueue
          /\ readyQueue = entry.readyQueue
          /\ completedProcesses = entry.completedProcesses
          /\ ganttChart = entry.ganttChart
          /\ currentTime = entry.currentTime
          /\ currentProcess = entry.currentProcess
    /\ result = NoResult
    /\ pc = "loop"
    /\ validationError = ""
    /\ chart = InitialChart

\* short inputs: every combination of small arrival and burst times
InitShort ==
    \E call \in Calls : \E n \in 0..MaxProcs :
        \E procs \in ProcessArrays(n, 0..MaxArrival, 1..MaxBurst, PriosFor(call.algorithm)) :
            Start(call, procs)

\* long inputs: processes of one long burst each, arriving at 0 or 1
InitLong ==
    \E call \in Calls : \E n \in 1..MaxProcs :
        \E procs \in ProcessArrays(n, {0, 1}, {LongBurst}, PriosFor(call.algorithm)) :
            Start(call, procs)

\* inputs of priorityScheduling in which some process has no priority (or the
\* priority 0, which `p.priority || 0` reads the same way)
InitNoPriority ==
    \E b \in BOOLEAN : \E n \in 1..MaxProcs :
        \E procs \in ProcessArrays(n, 0..MaxArrival, 1..MaxBurst, {0, 1}) :
            Start([algorithm |-> "PRIORITY", isPreemptive |-> b, timeQuantum |-> 0], procs)

\* batches: one or three processes more than the short inputs have, all of one
\* burst time (and one priority), arriving at any of the small arrival times
InitBatch ==
    \E call \in Calls : \E n \in {MaxProcs + 1, MaxProcs + 3} :
        \E procs \in ProcessArrays(n, 0..MaxArrival, {BatchBurst},
                                   IF call.algorithm = "PRIORITY" THEN {1} ELSE {0}) :
            Start(call, procs)

Init == InitShort \/ InitLong \/ InitNoPriority \/ InitBatch

(* ----------------------- the caller's array ---------------------------- *)
\* the working array being the caller's array itself
InputAfterWriteShared(input, working) == working

\* the caller's array after a write to the function's working array: the working
\* array is a new array ([...processes]) or an array of new objects
\* (processes.map((p) => ({ ...p, remainingTime }))), so the write stays in it
InputAfterWrite(input, working) == input

(* -------------------------------- FCFS -------------------------------- *)
\* one call of the callback of sortedProcesses.map
FcfsMap ==
    /\ pc = "loop" /\ algorithm = "FCFS"
    /\ mapIndex <= Len(sortedProcesses)
    /\ LET process == sortedProcesses[mapIndex]
           startTime == Max(currentTime, process.arrivalTime)
           endTime == startTime + process.burstTime
       IN /\ ganttChart' = Append(ganttChart, GanttItem(process.id, startTime, endTime))
          /\ currentTime' = endTime
          /\ completedProcesses' =
                Append(completedProcesses,
                       Completed(process, endTime, endTime - process.arrivalTime,
                                 startTime - process.arrivalTime))
    /\ mapIndex' = mapIndex + 1
    /\ UNCHANGED <<chart, validationError, algorithm, isPreemptive, timeQuantum, processes, sortedProcesses,
                   remainingProcesses, processQueue, readyQueue, currentProcess,
                   result, pc>>

\* fcfsScheduling as a function of its argument: the intervals that the map over
\* the sorted copy pushes, the clock starting at 0
RECURSIVE FcfsIntervals(_, _)
FcfsIntervals(sorted, now) ==
    IF sorted = <<>> THEN <<>>
    ELSE LET process == Head(sorted)
             startTime == Max(now, process.arrivalTime)
             endTime == startTime + process.burstTime
         IN <<GanttItem(process.id, startTime, endTime)>>
                \o FcfsIntervals(Tail(sorted), endTime)

fcfsScheduling(procs) == FcfsIntervals(SortByArrival(procs), 0)

(* --------------------------------- SJF -------------------------------- *)
\* the filter letting through processes that have not arrived yet
ArrivedOrNot(s, now) == s

\* remainingProcesses.filter((p) => p.arrivalTime <= currentTime)
Arrived(s, now) == SelectSeq(s, LAMBDA p : p.arrivalTime <= now)

\* availableProcesses.reduce((shortest, current) =>
\*     current.burstTime < shortest.burstTime ? current : shortest)
ShortestJob(available) == available[ReduceMin(BurstTimes(available))]

\* a loop iteration that finds no available process and jumps to the next arrival
SjfIdle ==
    /\ pc = "loop" /\ algorithm = "SJF"
    /\ Len(remainingProcesses) > 0
    /\ Arrived(remainingProcesses, currentTime) = <<>>
    /\ currentTime' = MinOf(ArrivalTimes(remainingProcesses))
    /\ UNCHANGED <<chart, validationError, algorithm, isPreemptive, timeQuantum, processes, sortedProcesses,
                   mapIndex, remainingProcesses, processQueue, readyQueue,
                   completedProcesses, ganttChart, currentProcess, result, pc>>

\* a loop iteration that runs the shortest available job to completion
SjfDispatch ==
    /\ pc = "loop" /\ algorithm = "SJF"
    /\ Len(remainingProcesses) > 0
    /\ Arrived(remainingProcesses, currentTime) # <<>>
    /\ LET shortestJob == ShortestJob(Arrived(remainingProcesses, currentTime))
           startTime == currentTime
           endTime == startTime + shortestJob.burstTime
       IN /\ ganttChart' = Append(ganttChart, GanttItem(shortestJob.id, startTime, endTime))
          /\ completedProcesses' =
                Append(completedProcesses,
                       Completed(shortestJob, endTime, endTime - shortestJob.arrivalTime,
                                 startTime - shortestJob.arrivalTime))
          /\ currentTime' = endTime
          /\ remainingProcesses' =
                RemoveAt(remainingProcesses, IndexOfId(remainingProcesses, shortestJob.id))
    /\ processes' = InputAfterWrite(processes, remainingProcesses')
    /\ UNCHANGED <<chart, validationError, algorithm, isPreemptive, timeQuantum, sortedProcesses,
                   mapIndex, processQueue, readyQueue, currentProcess, result, pc>>

RECURSIVE SjfCompletionTimes(_, _)
\* sjfScheduling as a function: the loop continued from remainingProcesses and
\* currentTime, giving the id and completionTime of each completed process in
\* the order of completion
SjfCompletionTimes(remaining, now) ==
    IF remaining = <<>> THEN <<>>
    ELSE IF Arrived(remaining, now) = <<>>
    THEN SjfCompletionTimes(remaining, MinOf(ArrivalTimes(remaining)))
    ELSE LET shortestJob == ShortestJob(Arrived(remaining, now))
             endTime == now + shortestJob.burstTime
         IN <<[id |-> shortestJob.id, completionTime |-> endTime]>>
                \o SjfCompletionTimes(
                       RemoveAt(remaining, IndexOfId(remaining, shortestJob.id)), endTime)

(* ----------------------- non-preemptive Priority ---------------------- *)
\* availableProcesses.reduce((highest, current) =>
\*     (current.priority || 0) < (highest.priority || 0) ? current : highest)
HighestPriority(available) == available[ReduceMin(Priorities(available))]

NonPreemptivePriorityIdle ==
    /\ pc = "loop" /\ algorithm = "PRIORITY" /\ ~isPreemptive
    /\ Len(remainingProcesses) > 0
    /\ Arrived(remainingProcesses, currentTime) = <<>>
    /\ currentTime' = MinOf(ArrivalTimes(remainingProcesses))
    /\ UNCHANGED <<chart, validationError, algorithm, isPreemptive, timeQuantum, processes, sortedProcesses,
                   mapIndex, remainingProcesses, processQueue, readyQueue,
                   completedProcesses, ganttChart, currentProcess, result, pc>>

NonPreemptivePriorityDispatch ==
    /\ pc = "loop" /\ algorithm = "PRIORITY" /\ ~isPreemptive
    /\ Len(remainingProcesses) > 0
    /\ Arrived(remainingProcesses, currentTime) # <<>>
    /\ LET highestPriorityProcess ==
               HighestPriority(Arrived(remainingProcesses, currentTime))
           startTime == currentTime
           endTime == startTime + highestPriorityProcess.burstTime
       IN /\ ganttChart' =
                Append(ganttChart, GanttItem(highestPriorityProcess.id, startTime, endTime))
          /\ completedProcesses' =
                Append(completedProcesses,
                       Completed(highestPriorityProcess, endTime,
                                 endTime - highestPriorityProcess.arrivalTime,
                                 startTime - highestPriorityProcess.arrivalTime))
          /\ currentTime' = endTime
          /\ remainingProcesses' =
                RemoveAt(remainingProcesses,
                         IndexOfId(remainingProcesses, highestPriorityProcess.id))
    /\ processes' = InputAfterWrite(processes, remainingProcesses')
    /\ UNCHANGED <<chart, validationError, algorithm, isPreemptive, timeQuantum, sortedProcesses,
                   mapIndex, processQueue, readyQueue, currentProcess, result, pc>>

(* -------------------------------- SRTF -------------------------------- *)
\* the while condition of the two tick loops
TickLoopRuns ==
    Len(completedProcesses) < Len(processes) /\ currentTime < maxTime

\* the filter testing the remaining time only, not the arrival
AvailableUnarrived(queue, now) == SelectSeq(queue, LAMBDA p : p.remainingTime > 0)

\* processQueue.filter((p) => p.arrivalTime <= currentTime && p.remainingTime > 0)
Available(queue, now) ==
    SelectSeq(queue, LAMBDA p : p.arrivalTime <= now /\ p.remainingTime > 0)

\* availableProcesses.reduce((shortest, current) =>
\*     current.remainingTime < shortest.remainingTime ? current : shortest)
ShortestProcess(available) == available[ReduceMin(RemainingTimes(available))]

\* process.remainingTime-- on the element of processQueue the reference points to
Decrement(queue, id) ==
    [i \in 1..Len(queue) |->
        IF queue[i].id = id
        THEN [queue[i] EXCEPT !.remainingTime = queue[i].remainingTime - 1]
        ELSE queue[i]]

\* no merge: every tick pushes an interval of its own
MergeTickAlwaysPush(gantt, id, startTime, endTime) ==
    Append(gantt, GanttItem(id, startTime, endTime))

\* the merge that finds the last interval but does not move its end
MergeTickKeepEnd(gantt, id, startTime, endTime) ==
    IF /\ gantt # <<>>
       /\ gantt[Len(gantt)].processId = id
       /\ gantt[Len(gantt)].endTime = startTime
    THEN gantt
    ELSE Append(gantt, GanttItem(id, startTime, endTime))

\* "Merge consecutive time slots for the same process"
MergeTick(gantt, id, startTime, endTime) ==
    IF /\ gantt # <<>>
       /\ gantt[Len(gantt)].processId = id
       /\ gantt[Len(gantt)].endTime = startTime
    THEN [gantt EXCEPT ![Len(gantt)].endTime = endTime]
    ELSE Append(gantt, GanttItem(id, startTime, endTime))

\* a tick with no available process
SrtfIdle ==
    /\ pc = "loop" /\ algorithm = "SRTF"
    /\ TickLoopRuns
    /\ Available(processQueue, currentTime) = <<>>
    /\ currentTime' = currentTime + 1
    /\ UNCHANGED <<chart, validationError, algorithm, isPreemptive, timeQuantum, processes, sortedProcesses,
                   mapIndex, remainingProcesses, processQueue, readyQueue,
                   completedProcesses, ganttChart, currentProcess, result, pc>>

\* a tick given to the process with the shortest remaining time
SrtfTick ==
    /\ pc = "loop" /\ algorithm = "SRTF"
    /\ TickLoopRuns
    /\ Available(processQueue, currentTime) # <<>>
    /\ LET shortestProcess == ShortestProcess(Available(processQueue, currentTime))
           startTime == currentTime
           after == [shortestProcess EXCEPT !.remainingTime = @ - 1]
       IN /\ currentProcess' = shortestProcess.id
          /\ processQueue' = Decrement(processQueue, shortestProcess.id)
          /\ currentTime' = currentTime + 1
          /\ completedProcesses' =
                IF after.remainingTime = 0
                THEN Append(completedProcesses,
                            Completed(after, currentTime',
                                      currentTime' - after.arrivalTime,
                                      currentTime' - after.arrivalTime - after.burstTime))
                ELSE completedProcesses
          /\ ganttChart' = MergeTick(ganttChart, shortestProcess.id, startTime, currentTime')
    /\ processes' = InputAfterWrite(processes, processQueue')
    /\ UNCHANGED <<chart, validationError, algorithm, isPreemptive, timeQuantum, sortedProcesses,
                   mapIndex, remainingProcesses, readyQueue, result, pc>>

(* ------------------------- preemptive Priority ------------------------ *)
PreemptivePriorityIdle ==
    /\ pc = "loop" /\ algorithm = "PRIORITY" /\ isPreemptive
    /\ TickLoopRuns
    /\ Available(processQueue, currentTime) = <<>>
    /\ currentTime' = currentTime + 1
    /\ UNCHANGED <<chart, validationError, algorithm, isPreemptive, timeQuantum, processes, sortedProcesses,
                   mapIndex, remainingProcesses, processQueue, readyQueue,
                   completedProcesses, ganttChart, currentProcess, result, pc>>

PreemptivePriorityTick ==
    /\ pc = "loop" /\ algorithm = "PRIORITY" /\ isPreemptive
    /\ TickLoopRuns
    /\ Available(processQueue, currentTime) # <<>>
    /\ LET highestPriorityProcess ==
               HighestPriority(Available(processQueue, currentTime))
           startTime == currentTime
           after == [highestPriorityProcess EXCEPT !.remainingTime = @ - 1]
       IN /\ currentProcess' = highestPriorityProcess.id
          /\ processQueue' = Decrement(processQueue, highestPriorityProcess.id)
          /\ currentTime' = currentTime + 1
          /\ completedProcesses' =
                IF after.remainingTime = 0
                THEN Append(completedProcesses,
                            Completed(after, currentTime',
                                      currentTime' - after.arrivalTime,
                                      currentTime' - after.arrivalTime - after.burstTime))
                ELSE completedProcesses
          /\ ganttChart' =
                MergeTick(ganttChart, highestPriorityProcess.id, startTime, currentTime')
    /\ processes' = InputAfterWrite(processes, processQueue')
    /\ UNCHANGED <<chart, validationError, algorithm, isPreemptive, timeQuantum, sortedProcesses,
                   mapIndex, remainingProcesses, readyQueue, result, pc>>

(* ----------------------------- Round Robin ---------------------------- *)
\* readyQueue.includes(p), the queue holding references into processQueue
Includes(queue, i) == \E k \in 1..Len(queue) : queue[k] = i

RECURSIVE ArriveAt(_, _, _, _)
\* "Add newly arrived processes to ready queue": the forEach at the loop head,
\* continued from processQueue[i]
ArriveAt(ready, queue, i, now) ==
    IF i > Len(queue) THEN ready
    ELSE ArriveAt(IF /\ queue[i].arrivalTime = now
                     /\ queue[i].remainingTime > 0
                     /\ ~Includes(ready, i)
                  THEN Append(ready, i) ELSE ready,
                  queue, i + 1, now)

RECURSIVE ArriveByRunningToo(_, _, _, _, _)
\* the forEach after the dispatch without its test p !== currentProcess
ArriveByRunningToo(ready, queue, i, now, running) ==
    IF i > Len(queue) THEN ready
    ELSE ArriveByRunningToo(IF /\ queue[i].arrivalTime <= now
                               /\ queue[i].remainingTime > 0
                               /\ ~Includes(ready, i)
                            THEN Append(ready, i) ELSE ready,
                            queue, i + 1, now, running)

RECURSIVE ArriveBy(_, _, _, _, _)
\* "Add newly arrived processes": the forEach after the dispatch, continued from
\* processQueue[i]; running is the process just dispatched
ArriveBy(ready, queue, i, now, running) ==
    IF i > Len(queue) THEN ready
    ELSE ArriveBy(IF /\ queue[i].arrivalTime <= now
                     /\ queue[i].remainingTime > 0
                     /\ ~Includes(ready, i)
                     /\ i # running
                  THEN Append(ready, i) ELSE ready,
                  queue, i + 1, now, running)

\* an iteration that finds the ready queue empty
RoundRobinIdle ==
    /\ pc = "loop" /\ algorithm = "RR"
    /\ Len(completedProcesses) < Len(processes)
    /\ ArriveAt(readyQueue, processQueue, 1, currentTime) = <<>>
    /\ currentTime' = currentTime + 1
    /\ UNCHANGED <<chart, validationError, algorithm, isPreemptive, timeQuantum, processes, sortedProcesses,
                   mapIndex, remainingProcesses, processQueue, readyQueue,
                   completedProcesses, ganttChart, currentProcess, result, pc>>

\* an iteration that dispatches the head of the ready queue for one quantum
RoundRobinDispatch ==
    /\ pc = "loop" /\ algorithm = "RR"
    /\ Len(completedProcesses) < Len(processes)
    /\ ArriveAt(readyQueue, processQueue, 1, currentTime) # <<>>
    \* the timeline of a run that makes no progress grows without end: cut it off
    /\ Len(ganttChart) <= SumSeq(BurstTimes(processes))
    \* arrived: the ready queue after the forEach at the loop head
    /\ \E arrived \in {ArriveAt(readyQueue, processQueue, 1, currentTime)} :
       LET running == Head(arrived)
           currentProc == processQueue[running]
           executionTime == Min(timeQuantum, currentProc.remainingTime)
           startTime == currentTime
           endTime == startTime + executionTime
           queue == [processQueue EXCEPT ![running].remainingTime = @ - executionTime]
           requeued == ArriveBy(Tail(arrived), queue, 1, endTime, running)
       IN /\ ganttChart' = Append(ganttChart, GanttItem(currentProc.id, startTime, endTime))
          /\ processQueue' = queue
          /\ currentTime' = endTime
          /\ IF queue[running].remainingTime = 0
             THEN /\ completedProcesses' =
                        Append(completedProcesses,
                               Completed(queue[running], endTime,
                                         endTime - currentProc.arrivalTime,
                                         endTime - currentProc.arrivalTime
                                             - currentProc.burstTime))
                  /\ readyQueue' = requeued
             ELSE /\ completedProcesses' = completedProcesses
                  /\ readyQueue' = Append(requeued, running)
    /\ processes' = InputAfterWrite(processes, processQueue')
    /\ UNCHANGED <<chart, validationError, algorithm, isPreemptive, timeQuantum, sortedProcesses,
                   mapIndex, remainingProcesses, currentProcess, result, pc>>

(* ------------------------------- return ------------------------------- *)
\* the loop of the called function has ended
LoopEnded ==
    CASE algorithm = "FCFS" -> mapIndex > Len(sortedProcesses)
      [] RunToCompletion -> Len(remainingProcesses) = 0
      [] TickDriven -> ~(Len(completedProcesses) < Len(processes) /\ currentTime < maxTime)
      [] algorithm = "RR" -> ~(Len(completedProcesses) < Len(processes))

\* return calculateMetrics(completedProcesses, ganttChart)
Return ==
    /\ pc = "loop"
    /\ LoopEnded
    /\ result' = calculateMetrics(completedProcesses, ganttChart)
    /\ chart' = [chart EXCEPT !.isRunning = FALSE]
    /\ pc' = "done"
    /\ UNCHANGED <<validationError, algorithm, isPreemptive, timeQuantum, processes, sortedProcesses,
                   mapIndex, remainingProcesses, processQueue, readyQueue,
                   completedProcesses, ganttChart, currentTime, currentProcess>>

Next ==
    \/ FcfsMap
    \/ SjfIdle
    \/ SjfDispatch
    \/ SrtfIdle
    \/ SrtfTick
    \/ RoundRobinIdle
    \/ RoundRobinDispatch
    \/ NonPreemptivePriorityIdle
    \/ NonPreemptivePriorityDispatch
    \/ PreemptivePriorityIdle
    \/ PreemptivePriorityTick
    \/ Return

Spec == Init /\ [][Next]_vars

(* ------------------------------ the page ------------------------------ *)
\* The page (CPUSchedulerPage) keeps processes, algorithm, timeQuantum,
\* isPreemptive, result and validationError as state and hands the first four to
\* the scheduling functions. algorithm holds the value of the select: "FCFS",
\* "SJF", "SRTF", "RR", "PRIORITY" stand for "fcfs", "sjf", "srtf", "rr",
\* "priority". A process id is a number: k stands for "Pk", 0 for an id that is
\* blank after trim(). null is NoResult, an undefined priority is 0.

\* what the form (newProcess) can hold when "Add Process" is clicked
\* what is typed into the id input: 0 is the empty string, n > 0 the name Pn, and
\* -(n + 1) the same with white space around it; of the latter, -2 (P1 with
\* white space around it) is typed
FormIds == {-2} \cup (0..MaxProcs)

\* id.trim()
trim(id) == IF id < 0 THEN -id - 1 ELSE id

FormArrivals == -1..1

FormBursts == 0..1

FormPriorities == 0..1

\* Number.parseInt(e.target.value) || 1 is never 0, and may be negative
QuantumInputs == {-1} \cup (1..MaxQuantum)

Algorithms == {"FCFS", "SJF", "SRTF", "RR", "PRIORITY"}

\* the locals of a scheduling function when none is running
NoLocals ==
    [sortedProcesses |-> <<>>, mapIndex |-> 1, remainingProcesses |-> <<>>,
     processQueue |-> <<>>, readyQueue |-> <<>>, completedProcesses |-> <<>>,
     ganttChart |-> <<>>, currentTime |-> 0, currentProcess |-> 0]

SetLocals(entry) ==
    /\ sortedProcesses' = entry.sortedProcesses
    /\ mapIndex' = entry.mapIndex
    /\ remainingProcesses' = entry.remainingProcesses
    /\ processQueue' = entry.processQueue
    /\ readyQueue' = entry.readyQueue
    /\ completedProcesses' = entry.completedProcesses
    /\ ganttChart' = entry.ganttChart
    /\ currentTime' = entry.currentTime
    /\ currentProcess' = entry.currentProcess

\* an event handler runs: no scheduling function is running, and none is after it
Handler == pc # "loop" /\ pc' = "idle" /\ SetLocals(NoLocals) /\ chart' = chart

InitPage ==
    /\ processes = <<>>
    /\ algorithm = "FCFS"
    /\ timeQuantum = InitialQuantum
    /\ isPreemptive = FALSE
    /\ result = NoResult
    /\ validationError = ""
    /\ chart = InitialChart
    /\ pc = "idle"
    /\ sortedProcesses = NoLocals.sortedProcesses
    /\ mapIndex = NoLocals.mapIndex
    /\ remainingProcesses = NoLocals.remainingProcesses
    /\ processQueue = NoLocals.processQueue
    /\ readyQueue = NoLocals.readyQueue
    /\ completedProcesses = NoLocals.completedProcesses
    /\ ganttChart = NoLocals.ganttChart
    /\ currentTime = NoLocals.currentTime
    /\ currentProcess = NoLocals.currentProcess

\* validateProcess(newProcess): the list of messages
validateProcess(process) ==
    (IF trim(process.id) = 0 THEN <<"Process ID is required">>
     ELSE IF \E i \in 1..Len(processes) : processes[i].id = trim(process.id)
     THEN <<"Process ID must be unique">>
     ELSE <<>>)
    \o (IF process.arrivalTime < 0 THEN <<"Arrival time cannot be negative">> ELSE <<>>)
    \o (IF process.burstTime <= 0 THEN <<"Burst time must be greater than 0">> ELSE <<>>)
    \o (IF algorithm = "PRIORITY" /\ process.priority <= 0
        THEN <<"Priority must be greater than 0">> ELSE <<>>)

\* a change of one of the form's inputs
editNewProcess ==
    /\ Handler
    /\ validationError' = ""
    /\ UNCHANGED <<processes, algorithm, timeQuantum, isPreemptive, result>>

\* the contents of the form
NewProcesses ==
    [id : FormIds, arrivalTime : FormArrivals, burstTime : FormBursts,
     priority : FormPriorities]

\* the id stored as it was typed
StoredIdAsTyped(newProcess) == newProcess.id

\* id: newProcess.id.trim()
StoredId(newProcess) == trim(newProcess.id)

\* the message addProcess sets with these contents of the form
addProcessError(newProcess) ==
    LET validationErrors == validateProcess(newProcess)
    IN IF Len(validationErrors) > 0 THEN validationErrors[1] ELSE ""

\* the list addProcess leaves with these contents of the form
addProcessList(newProcess) ==
    LET validationErrors == validateProcess(newProcess)
    IN IF Len(validationErrors) > 0
       THEN processes
       ELSE Append(processes,
                   [id |-> StoredId(newProcess),
                    arrivalTime |-> newProcess.arrivalTime,
                    burstTime |-> newProcess.burstTime,
                    priority |-> IF algorithm = "PRIORITY"
                                 THEN newProcess.priority ELSE 0])

\* the click on "Add Process" with one of these contents of the form; the list
\* is kept to MaxProcs additions
addProcessFrom(contents) ==
    /\ Handler
    /\ Len(processes) < MaxProcs
    /\ \E newProcess \in contents :
          /\ processes' = addProcessList(newProcess)
          /\ validationError' = addProcessError(newProcess)
    /\ UNCHANGED <<algorithm, timeQuantum, isPreemptive, result>>

addProcess == addProcessFrom(NewProcesses)

removeProcess ==
    /\ Handler
    /\ \E k \in 1..Len(processes) :
          processes' = SelectSeq(processes, LAMBDA p : p.id # processes[k].id)
    /\ result' = NoResult
    /\ UNCHANGED <<algorithm, timeQuantum, isPreemptive, validationError>>

demoProcesses ==
    << [id |-> 1, arrivalTime |-> 0, burstTime |-> 8, priority |-> 3],
       [id |-> 2, arrivalTime |-> 1, burstTime |-> 4, priority |-> 1],
       [id |-> 3, arrivalTime |-> 2, burstTime |-> 9, priority |-> 4],
       [id |-> 4, arrivalTime |-> 3, burstTime |-> 5, priority |-> 2] >>

loadDemoData ==
    /\ Handler
    /\ processes' = demoProcesses
    /\ validationError' = ""
    /\ result' = NoResult
    /\ UNCHANGED <<algorithm, timeQuantum, isPreemptive>>

\* the numbers Math.random() is let to give: 3 processes (of 3 to 7), arrival
\* times 0 and 1 (of 0 to 9), burst time 1 (of 1 to 15), priority 1 (of 1 to 5)
RandomCounts == {3}

RandomArrivals == {0, 1}

RandomBursts == {1}

RandomPriorities == {1}

generateRandomData ==
    /\ Handler
    /\ \E processCount \in RandomCounts :
          \E randomProcesses \in
                [1..processCount ->
                    [id : {0}, arrivalTime : RandomArrivals, burstTime : RandomBursts,
                     priority : RandomPriorities]] :
             processes' = [i \in 1..processCount |-> [randomProcesses[i] EXCEPT !.id = i]]
    /\ validationError' = ""
    /\ result' = NoResult
    /\ UNCHANGED <<algorithm, timeQuantum, isPreemptive>>

clearProcesses ==
    /\ Handler
    /\ processes' = <<>>
    /\ result' = NoResult
    /\ validationError' = ""
    /\ UNCHANGED <<algorithm, timeQuantum, isPreemptive>>

handleAlgorithmChange ==
    /\ Handler
    /\ \E newAlgorithm \in Algorithms :
          /\ algorithm' = newAlgorithm
          /\ processes' =
                IF newAlgorithm # "PRIORITY"
                THEN [i \in 1..Len(processes) |-> [processes[i] EXCEPT !.priority = 0]]
                ELSE processes
    /\ result' = NoResult
    /\ validationError' = ""
    /\ UNCHANGED <<timeQuantum, isPreemptive>>

\* onChange of the quantum input, which is shown for Round Robin only
setTimeQuantum ==
    /\ Handler
    /\ algorithm = "RR"
    /\ \E quantum \in QuantumInputs : timeQuantum' = quantum
    /\ UNCHANGED <<processes, algorithm, isPreemptive, result, validationError>>

\* onValueChange of the mode select, which is shown for Priority only
setIsPreemptive ==
    /\ Handler
    /\ algorithm = "PRIORITY"
    /\ \E value \in BOOLEAN : isPreemptive' = value
    /\ UNCHANGED <<processes, algorithm, timeQuantum, result, validationError>>

\* the Reset button and the chart's onReset: setResult(null)
resetResult ==
    /\ Handler
    /\ result' = NoResult
    /\ UNCHANGED <<processes, algorithm, timeQuantum, isPreemptive, validationError>>

\* validateForExecution without its test of the priorities
validateForExecutionNoPriorities ==
    (IF Len(processes) = 0 THEN <<"At least one process is required">> ELSE <<>>)
    \o (IF algorithm = "RR" /\ timeQuantum <= 0
        THEN <<"Time quantum must be greater than 0 for Round Robin">> ELSE <<>>)

\* validateForExecution(): the list of messages
validateForExecution ==
    (IF Len(processes) = 0 THEN <<"At least one process is required">> ELSE <<>>)
    \o (IF algorithm = "RR" /\ timeQuantum <= 0
        THEN <<"Time quantum must be greater than 0 for Round Robin">> ELSE <<>>)
    \o (IF algorithm = "PRIORITY"
           /\ \E i \in 1..Len(processes) : processes[i].priority <= 0
        THEN <<"All processes must have valid priorities for Priority Scheduling">>
        ELSE <<>>)

\* runAlgorithm up to the call of the scheduling function; the function's loop
\* and Return (setResult(schedulingResult)) are the steps that follow. The "Run"
\* button is disabled on an empty list; the handler is modelled without that.
runAlgorithm ==
    /\ pc # "loop"
    /\ LET executionErrors == validateForExecution
       IN IF Len(executionErrors) > 0
          THEN /\ validationError' = executionErrors[1]
               /\ chart' = chart
               /\ pc' = "idle"
               /\ SetLocals(NoLocals)
          ELSE /\ chart' = [chart EXCEPT !.isRunning = TRUE]
               /\ validationError' = ""
               /\ pc' = "loop"
               /\ SetLocals(Entry(algorithm, isPreemptive, processes))
    /\ UNCHANGED <<processes, algorithm, timeQuantum, isPreemptive, result>>

NextPage ==
    \/ editNewProcess
    \/ addProcess
    \/ removeProcess
    \/ loadDemoData
    \/ generateRandomData
    \/ clearProcesses
    \/ handleAlgorithmChange
    \/ setTimeQuantum
    \/ setIsPreemptive
    \/ resetResult
    \/ runAlgorithm
    \/ Next

SpecPage == InitPage /\ [][NextPage]_vars

(* -------------------------- the display colour ------------------------- *)
\* the id "A", a name without a digit, as a number of the model
LetterId == 1000

\* the characters \D does not match
DigitChars == <<"0", "1", "2", "3", "4", "5", "6", "7", "8", "9">>

RECURSIVE DecimalDigits(_)
\* String(n) for a natural number n, as a sequence of characters
DecimalDigits(n) ==
    IF n < 10 THEN <<DigitChars[n + 1]>>
    ELSE Append(DecimalDigits(n \div 10), DigitChars[(n % 10) + 1])

\* the string a process id of the model stands for: "A", or "P" and the number
IdText(id) == IF id = LetterId THEN <<"A">> ELSE <<"P">> \o DecimalDigits(id)

\* processId.replace(/\D/g, "")
DigitsOnly(text) ==
    SelectSeq(text, LAMBDA c : \E d \in 1..Len(DigitChars) : DigitChars[d] = c)

RECURSIVE DecimalValue(_)
DecimalValue(digits) ==
    IF digits = <<>> THEN 0
    ELSE 10 * DecimalValue(SubSeq(digits, 1, Len(digits) - 1))
         + (CHOOSE d \in 0..9 : DigitChars[d + 1] = digits[Len(digits)])

\* Number.parseInt of a string of digits: NaN for the empty string
parseInt(digits) ==
    IF digits = <<>> THEN NaN ELSE Fraction(DecimalValue(digits), 1)

\* number % m for a whole number or NaN
Remainder(number, m) ==
    IF number.kind = "NaN" THEN NaN ELSE Fraction(number.num % m, 1)

colors ==
    <<"#3B82F6", "#EF4444", "#10B981", "#F59E0B", "#8B5CF6",
      "#EC4899", "#06B6D4", "#84CC16", "#F97316", "#6366F1">>

\* generateProcessColor(processId); colors[NaN] is undefined
generateProcessColor(processId) ==
    LET index == Remainder(parseInt(DigitsOnly(processId)), Len(colors))
    IN IF index.kind = "NaN" THEN "undefined" ELSE colors[index.num + 1]

\* color: generateProcessColor(process.id), of an interval of the timeline
colorOf(item) == generateProcessColor(IdText(item.processId))

(* --------------------------- the Gantt chart --------------------------- *)
\* the slider's values that are whole numbers (it goes from 0.5 to 3 by 0.5)
AnimationSpeeds == {1, 3}

\* maxTime of the chart, in tenths: result ? Math.max(...endTime) : 0; Math.max()
\* of no intervals is -Infinity, below every clock value
chartMaxTime ==
    IF result = NoResult THEN 0
    ELSE IF result.ganttChart = <<>> THEN -1
    ELSE MaxOf(EndTimes(result.ganttChart)) * Tenths

\* the chart draws its buttons and slider only when there is a result
ChartShown == pc # "loop" /\ result # NoResult

\* a handler of the chart runs: as Handler, with the chart's state its to set
ChartHandler == pc # "loop" /\ pc' = "idle" /\ SetLocals(NoLocals)

PageUnchanged ==
    UNCHANGED <<processes, algorithm, timeQuantum, isPreemptive, validationError>>

\* the Play button (disabled while isAnimating); onPlay is setIsRunning(true)
handlePlay ==
    /\ ChartShown
    /\ ~chart.isAnimating
    /\ ChartHandler
    /\ chart' = [chart EXCEPT
                    !.currentTime = IF chart.currentTime >= chartMaxTime THEN 0 ELSE @,
                    !.isAnimating = TRUE,
                    !.isRunning = TRUE]
    /\ result' = result
    /\ PageUnchanged

\* the Pause button (disabled unless isAnimating); onPause is setIsRunning(false)
handlePause ==
    /\ ChartShown
    /\ chart.isAnimating
    /\ ChartHandler
    /\ chart' = [chart EXCEPT !.isAnimating = FALSE, !.isRunning = FALSE]
    /\ result' = result
    /\ PageUnchanged

\* the chart's Reset button; onReset is setResult(null)
handleReset ==
    /\ ChartShown
    /\ ChartHandler
    /\ chart' = [chart EXCEPT !.currentTime = 0, !.isAnimating = FALSE]
    /\ result' = NoResult
    /\ PageUnchanged

\* the slider: setAnimationSpeed(value[0])
setAnimationSpeed ==
    /\ ChartShown
    /\ ChartHandler
    /\ \E value \in AnimationSpeeds : chart' = [chart EXCEPT !.animationSpeed = value]
    /\ result' = result
    /\ PageUnchanged

\* the interval's callback, set while isAnimating && result && currentTime < maxTime
animationTick ==
    /\ ChartShown
    /\ chart.isAnimating
    /\ chart.currentTime < chartMaxTime
    /\ ChartHandler
    /\ LET next == chart.currentTime + chart.animationSpeed
       IN IF next >= chartMaxTime
          THEN chart' = [chart EXCEPT !.currentTime = chartMaxTime,
                                      !.isAnimating = FALSE]
          ELSE chart' = [chart EXCEPT !.currentTime = next]
    /\ result' = result
    /\ PageUnchanged

\* what the form holds when a process is added on the page with the chart: valid
\* contents, with one of the ids P1, P2, ... or A
NamedProcesses ==
    [id : (1..MaxProcs) \cup {LetterId}, arrivalTime : {0, 1}, burstTime : {1},
     priority : {0}]

addNamedProcess == addProcessFrom(NamedProcesses)

\* the Run Algorithm button: disabled={processes.length === 0 || isRunning}
RunDisabled == Len(processes) = 0 \/ chart.isRunning

clickRun == ~RunDisabled /\ runAlgorithm

\* the page with its chart: processes added and removed in the form, runs of
\* FCFS (the algorithm the page starts with), the page's Reset button, and the
\* chart's buttons, slider and timer
NextChart ==
    \/ addNamedProcess
    \/ removeProcess
    \/ clickRun
    \/ FcfsMap
    \/ Return
    \/ resetResult
    \/ handlePlay
    \/ handlePause
    \/ handleReset
    \/ setAnimationSpeed
    \/ animationTick

SpecChart == InitPage /\ [][NextChart]_vars

(* ------------------------ the ready queue panel ------------------------ *)
\* getProcessStates(): the state the panel gives process p of the result at the
\* clock value t (in tenths); `process.completionTime &&` is false for 0
stateAt(res, p, t) ==
    IF t < p.arrivalTime * Tenths THEN "not-arrived"
    ELSE IF p.completionTime # 0 /\ t >= p.completionTime * Tenths THEN "completed"
    ELSE IF \E i \in 1..Len(res.ganttChart) :
                /\ res.ganttChart[i].processId = p.id
                /\ res.ganttChart[i].startTime * Tenths <= t
                /\ t < res.ganttChart[i].endTime * Tenths
         THEN "executing"
    ELSE "waiting"

\* getProcessStates(): the state of every process of the result, by position
getProcessStates(res, t) ==
    [k \in 1..Len(res.processes) |-> stateAt(res, res.processes[k], t)]

\* processStates.filter((ps) => ps.state === state), as positions in result.processes
StatesFilter(processStates, state) ==
    {k \in DOMAIN processStates : processStates[k] = state}

(* ------------------------- a call, as a step --------------------------- *)
\* before the call: nothing is running yet
InitCall ==
    /\ pc = "start"
    /\ processes = <<>>
    /\ algorithm = "FCFS"
    /\ timeQuantum = 0
    /\ isPreemptive = FALSE
    /\ result = NoResult
    /\ validationError = ""
    /\ chart = InitialChart
    /\ sortedProcesses = NoLocals.sortedProcesses
    /\ mapIndex = NoLocals.mapIndex
    /\ remainingProcesses = NoLocals.remainingProcesses
    /\ processQueue = NoLocals.processQueue
    /\ readyQueue = NoLocals.readyQueue
    /\ completedProcesses = NoLocals.completedProcesses
    /\ ganttChart = NoLocals.ganttChart
    /\ currentTime = NoLocals.currentTime
    /\ currentProcess = NoLocals.currentProcess

\* the step into the called function: the state Start(call, procs) describes
Enter(call, procs) ==
    /\ algorithm' = call.algorithm
    /\ isPreemptive' = call.isPreemptive
    /\ timeQuantum' = call.timeQuantum
    /\ processes' = procs
    /\ SetLocals(Entry(call.algorithm, call.isPreemptive, procs))
    /\ result' = NoResult
    /\ pc' = "loop"
    /\ validationError' = ""
    /\ chart' = chart

\* the call of a scheduling function: on short inputs, of no more than MaxProcs
\* processes with the smallest and the largest of the small arrival and burst
\* times, and on the long inputs of InitLong
Call ==
    /\ pc = "start"
    /\ \E call \in Calls :
          \/ \E n \in 0..MaxProcs :
                \E procs \in ProcessArrays(n, {0, MaxArrival}, {1, MaxBurst},
                                           PriosFor(call.algorithm)) :
                    Enter(call, procs)
          \/ \E n \in 1..MaxProcs :
                \E procs \in ProcessArrays(n, {0, 1}, {LongBurst},
                                           PriosFor(call.algorithm)) :
                    Enter(call, procs)

NextCall == Call \/ Next

\* A call runs on one thread, with nothing else to wait for: while a statement
\* of the function is left to execute, it is executed.
LiveSpec == InitCall /\ [][NextCall]_vars /\ WF_vars(Next)

(* ------------------------- shared vocabulary -------------------------- *)
\* the call has returned a SchedulingResult
Returned == pc = "done" /\ result.kind = "result"

\* the input is valid: non-empty, unique ids, arrival >= 0, burst >= 1, and a
\* quantum >= 1 for Round Robin
ValidInput ==
    /\ processes # <<>>
    /\ \A i, j \in 1..Len(processes) : processes[i].id = processes[j].id => i = j
    /\ \A i \in 1..Len(processes) :
          processes[i].arrivalTime >= 0 /\ processes[i].burstTime >= 1
    /\ algorithm = "RR" => timeQuantum >= 1

\* how often the process with this id occurs in a process list
Occurrences(procs, id) == Cardinality({k \in 1..Len(procs) : procs[k].id = id})

\* every input process occurs exactly once in the list, and nothing else does
ExactlyOnce(procs) ==
    /\ Len(procs) = Len(processes)
    /\ \A i \in 1..Len(processes) : Occurrences(procs, processes[i].id) = 1

\* endTime - startTime of the intervals of one process, in timeline order
Durations(gantt, id) ==
    LET own == SelectSeq(gantt, LAMBDA g : g.processId = id)
    IN [i \in 1..Len(own) |-> own[i].endTime - own[i].startTime]

\* the input record with this id
InputOf(id) == processes[CHOOSE i \in 1..Len(processes) : processes[i].id = id]

\* every process of a Priority call has a priority, and it is positive
ValidPriorities ==
    algorithm = "PRIORITY" => \A i \in 1..Len(processes) : processes[i].priority >= 1

\* the last interval of the timeline, and the input position of its process
LastInterval == ganttChart[Len(ganttChart)]

LastRun == IndexOfId(processes, LastInterval.processId)

\* a dispatch of SJF or of non-preemptive Priority has just been made
JustDispatched == RunToCompletion /\ ganttChart # <<>>

\* input positions of the processes that had arrived and were still waiting when
\* that dispatch chose LastRun
WaitingAtDispatch ==
    {i \in 1..Len(processes) :
        /\ \E k \in 1..Len(remainingProcesses) : remainingProcesses[k].id = processes[i].id
        /\ processes[i].arrivalTime <= LastInterval.startTime}

\* a tick of SRTF or of preemptive Priority has just been executed
JustTicked ==
    /\ TickDriven /\ ganttChart # <<>>
    /\ LastInterval.endTime = currentTime

\* input positions of the other processes that had arrived and were incomplete
\* when that tick chose LastRun
WaitingAtTick ==
    {i \in 1..Len(processes) :
        /\ i # LastRun
        /\ processQueue[i].arrivalTime <= currentTime - 1
        /\ processQueue[i].remainingTime > 0}

\* the selection key of process i at the dispatch or tick just made
KeyThen(i) ==
    IF algorithm = "PRIORITY" THEN processes[i].priority
    ELSE IF algorithm = "SJF" THEN processes[i].burstTime
    ELSE IF i = LastRun THEN processQueue[i].remainingTime + 1
    ELSE processQueue[i].remainingTime

(* -------------------------------- C1 ---------------------------------- *)
\* C1: FCFS, SJF, non-preemptive Priority and Round Robin (quantum >= 1) return,
\* on every valid input, a completed-process list that holds every input
\* process exactly once.
C1_ExactlyOnce ==
    (Returned /\ ValidInput /\ ~TickDriven) => ExactlyOnce(result.processes)

\* a Round Robin run of two processes, one of them requeued, has returned
C1_Witness ==
    /\ Returned /\ ValidInput /\ algorithm = "RR"
    /\ Len(processes) = 2
    /\ Len(result.ganttChart) > 2
    /\ ExactlyOnce(result.processes)

(* -------------------------------- C2 ---------------------------------- *)
\* C2: SRTF and preemptive Priority stop, on every valid input, only because
\* every process has completed, never because currentTime reached maxTime; the
\* returned completed-process list holds every input process exactly once.
C2_CeilingNeverReached ==
    (pc = "done" /\ ValidInput /\ TickDriven) =>
        /\ Len(completedProcesses) = Len(processes)
        /\ ExactlyOnce(result.processes)

(* -------------------------------- C3 ---------------------------------- *)
\* C3: a preemptive run that reaches the time ceiling before every process has
\* completed is reported as a failure, never as a SchedulingResult with a
\* truncated completed list.
C3_CeilingReported ==
    (pc = "done" /\ ValidInput /\ TickDriven
        /\ Len(completedProcesses) < Len(processes)) =>
        result.kind = "failure"

(* -------------------------------- C4 ---------------------------------- *)
\* C4: in every result, the interval durations of each completed process add
\* up to that process's burst time.
C4_BurstRecovered ==
    (Returned /\ ValidInput) =>
        \A k \in 1..Len(result.processes) :
            SumSeq(Durations(result.ganttChart, result.processes[k].id))
                = result.processes[k].burstTime

\* an SRTF result in which a completed process ran in two separate intervals
C4_Witness ==
    /\ Returned /\ ValidInput /\ algorithm = "SRTF"
    /\ \E k \in 1..Len(result.processes) :
          /\ Len(Durations(result.ganttChart, result.processes[k].id)) = 2
          /\ SumSeq(Durations(result.ganttChart, result.processes[k].id))
                = result.processes[k].burstTime

(* -------------------------------- C5 ---------------------------------- *)
\* C5: in every returned timeline each interval ends after it starts, and each
\* interval starts at or after the end (hence the start) of the one before it.
C5_TimelineOrdered ==
    (Returned /\ ValidInput) =>
        LET gantt == result.ganttChart
        IN /\ \A i \in 1..Len(gantt) : gantt[i].endTime > gantt[i].startTime
           /\ \A i \in 1..(Len(gantt) - 1) :
                 /\ gantt[i].startTime <= gantt[i + 1].startTime
                 /\ gantt[i].endTime <= gantt[i + 1].startTime

\* an FCFS timeline of two intervals whose second process had arrived before
\* the first one ended and had to wait for the CPU
C5_Witness ==
    /\ Returned /\ ValidInput /\ algorithm = "FCFS"
    /\ Len(result.ganttChart) = 2
    /\ result.ganttChart[2].endTime > result.ganttChart[2].startTime
    /\ result.ganttChart[1].endTime = result.ganttChart[2].startTime
    /\ InputOf(result.ganttChart[2].processId).arrivalTime
          < result.ganttChart[2].startTime

(* -------------------------------- C6 ---------------------------------- *)
\* C6: no interval of a returned timeline starts before the arrival time of
\* its process.
C6_NoStartBeforeArrival ==
    (Returned /\ ValidInput) =>
        \A i \in 1..Len(result.ganttChart) :
            result.ganttChart[i].startTime
                >= InputOf(result.ganttChart[i].processId).arrivalTime

\* an SJF timeline with an idle gap: the second job starts exactly on arrival,
\* after the first one has ended
C6_Witness ==
    /\ Returned /\ ValidInput /\ algorithm = "SJF"
    /\ Len(result.ganttChart) = 2
    /\ result.ganttChart[1].endTime < result.ganttChart[2].startTime
    /\ result.ganttChart[2].startTime
          = InputOf(result.ganttChart[2].processId).arrivalTime

(* -------------------------------- C7 ---------------------------------- *)
\* C7: every completed process has turnaroundTime = completionTime - arrivalTime
\* and waitingTime = turnaroundTime - burstTime.
C7_TimeIdentities ==
    (Returned /\ ValidInput) =>
        \A k \in 1..Len(result.processes) :
            LET p == result.processes[k]
            IN /\ p.turnaroundTime = p.completionTime - p.arrivalTime
               /\ p.waitingTime = p.turnaroundTime - p.burstTime

\* a non-preemptive result (waitingTime computed as startTime - arrivalTime) in
\* which a process waited
C7_Witness ==
    /\ Returned /\ ValidInput /\ algorithm \in {"FCFS", "SJF"}
    /\ \E k \in 1..Len(result.processes) :
          LET p == result.processes[k]
          IN /\ p.waitingTime > 0
             /\ p.waitingTime = p.turnaroundTime - p.burstTime
             /\ p.turnaroundTime = p.completionTime - p.arrivalTime

(* -------------------------------- C8 ---------------------------------- *)
\* C8: every completed process has waitingTime >= 0 and
\* turnaroundTime >= burstTime > 0.
C8_NonNegativeTimes ==
    (Returned /\ ValidInput) =>
        \A k \in 1..Len(result.processes) :
            LET p == result.processes[k]
            IN /\ p.waitingTime >= 0
               /\ p.turnaroundTime >= p.burstTime
               /\ p.burstTime > 0

\* a preemptive Priority result holding a process that did not wait (it ran
\* from its arrival on) and a process that did
C8_Witness ==
    /\ Returned /\ ValidInput /\ algorithm = "PRIORITY" /\ isPreemptive
    /\ \E k \in 1..Len(result.processes) :
          /\ result.processes[k].waitingTime = 0
          /\ result.processes[k].arrivalTime > 0
    /\ \E k \in 1..Len(result.processes) : result.processes[k].waitingTime > 0

(* -------------------------------- C9 ---------------------------------- *)
\* C9: called with an empty process list, each scheduling function refuses to
\* run and reports an error; it returns no SchedulingResult (whose averages
\* would be 0 / 0).
C9_EmptyRejected ==
    (pc = "done" /\ processes = <<>>) => result.kind = "rejected"

(* -------------------------------- C10 --------------------------------- *)
\* C10: called with a time quantum <= 0 and a non-empty process list,
\* roundRobinScheduling refuses to run before simulating: it dispatches nothing
\* and, once it is done, has reported a rejected input.
C10_BadQuantumRejected ==
    (algorithm = "RR" /\ timeQuantum <= 0 /\ processes # <<>>) =>
        /\ ganttChart = <<>>
        /\ pc = "done" => result.kind = "rejected"

(* -------------------------------- C11 --------------------------------- *)
\* C11: called with a process whose priority is missing or not positive,
\* priorityScheduling (either mode) refuses to run: it dispatches nothing, the
\* missing priority takes no part in a selection, and once it is done it has
\* reported a rejected input.
C11_BadPriorityRejected ==
    (algorithm = "PRIORITY"
        /\ \E i \in 1..Len(processes) : processes[i].priority <= 0) =>
        /\ ganttChart = <<>>
        /\ pc = "done" => result.kind = "rejected"

C14_ArrivalBeforeRequeue ==
    (algorithm = "RR" /\ ValidInput) =>
        /\ (pc = "loop" /\ ganttChart # <<>>
                /\ ganttChart[Len(ganttChart)].endTime = currentTime) =>
              LET justRun == IndexOfId(processQueue, ganttChart[Len(ganttChart)].processId)
              IN /\ \A i \in 1..Len(processQueue) :
                        (processQueue[i].arrivalTime <= currentTime
                            /\ processQueue[i].remainingTime > 0) =>
                            Includes(readyQueue, i)
                 /\ processQueue[justRun].remainingTime > 0 =>
                        /\ readyQueue[Len(readyQueue)] = justRun
                        /\ \A k \in 1..(Len(readyQueue) - 1) : readyQueue[k] # justRun
        /\ Returned =>
              LET gantt == result.ganttChart
              IN \A k \in 1..Len(gantt) : \A i \in 1..Len(processes) :
                    (/\ processes[i].id # gantt[k].processId
                     /\ gantt[k].startTime < processes[i].arrivalTime
                     /\ processes[i].arrivalTime <= gantt[k].endTime) =>
                        \A again \in (k + 1)..Len(gantt) :
                            gantt[again].processId = gantt[k].processId =>
                                \E j \in (k + 1)..(again - 1) :
                                    gantt[j].processId = processes[i].id

\* a returned Round Robin timeline in which the second process of the input
\* arrived during the first interval of the first one and runs between that
\* interval and the next interval of the first process
C14_Witness ==
    /\ Returned /\ ValidInput /\ algorithm = "RR"
    /\ Len(processes) = 2
    /\ Len(result.ganttChart) >= 3
    /\ result.ganttChart[1].processId = processes[1].id
    /\ result.ganttChart[2].processId = processes[2].id
    /\ result.ganttChart[3].processId = processes[1].id
    /\ result.ganttChart[1].startTime < processes[2].arrivalTime
    /\ processes[2].arrivalTime <= result.ganttChart[1].endTime

(* -------------------------------- C15 --------------------------------- *)
\* C15: FCFS returns one interval per process, in ascending order of arrival
\* time with equal arrivals in input order; each interval starts at the later
\* of its process's arrival and the end of the interval before it (0 for the
\* first), and ends one burst time later.
C15_FcfsTimeline ==
    (Returned /\ ValidInput /\ algorithm = "FCFS") =>
        LET gantt == result.ganttChart
            input(k) == IndexOfId(processes, gantt[k].processId)
            previousEnd(k) == IF k = 1 THEN 0 ELSE gantt[k - 1].endTime
        IN /\ Len(gantt) = Len(processes)
           /\ \A i \in 1..Len(processes) :
                 Cardinality({k \in 1..Len(gantt) : gantt[k].processId = processes[i].id}) = 1
           /\ \A k \in 1..(Len(gantt) - 1) :
                 \/ processes[input(k)].arrivalTime < processes[input(k + 1)].arrivalTime
                 \/ /\ processes[input(k)].arrivalTime = processes[input(k + 1)].arrivalTime
                    /\ input(k) < input(k + 1)
           /\ \A k \in 1..Len(gantt) :
                 /\ gantt[k].startTime =
                       IF previousEnd(k) > processes[input(k)].arrivalTime
                       THEN previousEnd(k) ELSE processes[input(k)].arrivalTime
                 /\ gantt[k].endTime = gantt[k].startTime + processes[input(k)].burstTime

\* an FCFS timeline of two processes of equal arrival time, later than 0: the
\* first of the input runs first, from its arrival, the second after it
C15_Witness ==
    /\ Returned /\ ValidInput /\ algorithm = "FCFS"
    /\ Len(processes) = 2
    /\ processes[1].arrivalTime = processes[2].arrivalTime
    /\ processes[1].arrivalTime > 0
    /\ Len(result.ganttChart) = 2
    /\ result.ganttChart[1].processId = processes[1].id
    /\ result.ganttChart[1].startTime = processes[1].arrivalTime
    /\ result.ganttChart[2].startTime = result.ganttChart[1].endTime

(* -------------------------------- C16 --------------------------------- *)
\* C16: the process chosen at a dispatch of SJF or non-preemptive Priority, or
\* at an executed tick of SRTF or preemptive Priority, has the smallest key
\* (burst time, remaining time, priority value) of all processes that had
\* arrived and were not completed at that moment.
C16_MinimumKey ==
    (ValidInput /\ ValidPriorities) =>
        /\ JustDispatched => \A i \in WaitingAtDispatch : KeyThen(LastRun) <= KeyThen(i)
        /\ JustTicked => \A i \in WaitingAtTick : KeyThen(LastRun) <= KeyThen(i)

\* an SRTF tick was given to the second process of the input, whose remaining
\* time was smaller than that of the first, which had arrived too and had run
C16_Witness ==
    /\ ValidInput /\ algorithm = "SRTF" /\ JustTicked
    /\ Len(processes) = 2
    /\ LastRun = 2
    /\ 1 \in WaitingAtTick
    /\ processQueue[1].remainingTime < processQueue[1].burstTime
    /\ KeyThen(2) < KeyThen(1)

(* -------------------------------- C17 --------------------------------- *)
\* C17: at a dispatch of SJF or of non-preemptive Priority, of the arrived,
\* incomplete processes that share the smallest key the one with the earliest
\* arrival time is dispatched, and of those with equal arrival the one earliest
\* in input order.
C17_NonPreemptiveTieBreak ==
    (ValidInput /\ ValidPriorities /\ JustDispatched) =>
        \A i \in WaitingAtDispatch :
            KeyThen(i) = KeyThen(LastRun) =>
                \/ processes[LastRun].arrivalTime < processes[i].arrivalTime
                \/ /\ processes[LastRun].arrivalTime = processes[i].arrivalTime
                   /\ LastRun < i

(* -------------------------------- C18 --------------------------------- *)
\* C18: at an executed tick of SRTF or of preemptive Priority, of the arrived,
\* incomplete processes that share the smallest key the one with the earliest
\* arrival time gets the tick, and of those with equal arrival the one earliest
\* in input order; so a process that is running is not displaced by one that
\* arrived later and whose key only equals its own.
C18_PreemptiveTieBreak ==
    (ValidInput /\ ValidPriorities /\ JustTicked) =>
        \A i \in WaitingAtTick :
            KeyThen(i) = KeyThen(LastRun) =>
                \/ processes[LastRun].arrivalTime < processes[i].arrivalTime
                \/ /\ processes[LastRun].arrivalTime = processes[i].arrivalTime
                   /\ LastRun < i

(* -------------------------------- C19 --------------------------------- *)
\* time the process with this id has run before time t, by the timeline
ExecutedBefore(gantt, id, t) ==
    LET own == SelectSeq(gantt, LAMBDA g : g.processId = id /\ g.startTime < t)
    IN SumSeq([k \in 1..Len(own) |->
                  (IF own[k].endTime < t THEN own[k].endTime ELSE t) - own[k].startTime])

\* no preemption is triggered in the timeline: whenever a process arrives while
\* another one is running (it ran the tick before and is not finished), the
\* burst time of the new one is not smaller than the remaining time of that one
NoPreemptionTriggered(gantt) ==
    \A new \in 1..Len(processes) : \A k \in 1..Len(gantt) :
        LET arrival == processes[new].arrivalTime
            running == InputOf(gantt[k].processId)
            remaining == running.burstTime - ExecutedBefore(gantt, running.id, arrival)
        IN (/\ gantt[k].startTime < arrival /\ arrival <= gantt[k].endTime
            /\ running.id # processes[new].id
            /\ remaining > 0) =>
                processes[new].burstTime >= remaining

\* C19: on a valid input on which no preemption is triggered, srtfScheduling
\* gives every process the completion time that sjfScheduling gives it.
C19_SrtfAsSjf ==
    (Returned /\ ValidInput /\ algorithm = "SRTF"
        /\ ExactlyOnce(result.processes)
        /\ NoPreemptionTriggered(result.ganttChart)) =>
        LET sjf == SjfCompletionTimes(processes, 0)
        IN \A k \in 1..Len(result.processes) : \A j \in 1..Len(sjf) :
              sjf[j].id = result.processes[k].id =>
                  sjf[j].completionTime = result.processes[k].completionTime

\* the function SjfCompletionTimes and the SJF loop agree on every input
SjfCompletionTimesAgree ==
    (Returned /\ algorithm = "SJF") =>
        SjfCompletionTimes(processes, 0) =
            [k \in 1..Len(result.processes) |->
                [id |-> result.processes[k].id,
                 completionTime |-> result.processes[k].completionTime]]

(* -------------------------------- C20 --------------------------------- *)
\* start time of the first interval of the process at input position i
FirstDispatch(gantt, i) ==
    gantt[CHOOSE k \in 1..Len(gantt) :
              /\ gantt[k].processId = processes[i].id
              /\ \A j \in 1..(k - 1) : gantt[j].processId # processes[i].id].startTime

\* number of processes ahead of the one at input position i in arrival order
\* (arrival time ascending, ties by input order)
AheadInArrivalOrder(i) ==
    Cardinality({j \in 1..Len(processes) :
        \/ processes[j].arrivalTime < processes[i].arrivalTime
        \/ processes[j].arrivalTime = processes[i].arrivalTime /\ j < i})

\* C20: in a Round Robin result the first dispatches of two processes of equal
\* arrival time start at most timeQuantum * n apart, n being the number of
\* processes ahead, in arrival order, of the one dispatched later.
C20_FairnessBound ==
    (Returned /\ ValidInput /\ algorithm = "RR") =>
        \A p, q \in 1..Len(processes) :
            (/\ p # q
             /\ processes[p].arrivalTime = processes[q].arrivalTime
             /\ FirstDispatch(result.ganttChart, p) <= FirstDispatch(result.ganttChart, q)) =>
                FirstDispatch(result.ganttChart, q) - FirstDispatch(result.ganttChart, p)
                    <= timeQuantum * AheadInArrivalOrder(q)

(* -------------------------------- C12 --------------------------------- *)
\* the three conditions under which the page may call a scheduling function
RunPreconditions ==
    /\ processes # <<>>
    /\ algorithm = "RR" => timeQuantum > 0
    /\ algorithm = "PRIORITY" =>
          \A i \in 1..Len(processes) : processes[i].priority > 0

\* the message of the first condition that fails
FirstFailure ==
    IF processes = <<>> THEN "At least one process is required"
    ELSE IF algorithm = "RR" /\ timeQuantum <= 0
    THEN "Time quantum must be greater than 0 for Round Robin"
    ELSE "All processes must have valid priorities for Priority Scheduling"

\* C12: a scheduling function is entered only from a page state with a
\* non-empty list, a quantum > 0 for Round Robin and a priority > 0 on every
\* process for Priority; a runAlgorithm step from any other state enters no
\* function, leaves result as it was and sets validationError to the message of
\* the first failing check.
C12_RunOnlyWhenValid ==
    [][/\ (pc # "loop" /\ pc' = "loop") => RunPreconditions
       /\ (runAlgorithm /\ ~RunPreconditions) =>
             /\ pc' # "loop"
             /\ result' = result
             /\ validationError' = FirstFailure]_vars

\* Round Robin was run and returned a result, the quantum was then set to a
\* negative number and Run was clicked again: the message of the quantum check
\* is shown, the earlier result is still there, and no function was entered
C12_Witness ==
    /\ pc = "idle"
    /\ algorithm = "RR" /\ timeQuantum <= 0
    /\ processes # <<>>
    /\ result.kind = "result"
    /\ validationError = "Time quantum must be greater than 0 for Round Robin"

(* -------------------------------- C21 --------------------------------- *)
\* the largest endTime of a non-empty timeline
TotalSpan(gantt) ==
    CHOOSE m \in {gantt[k].endTime : k \in 1..Len(gantt)} :
        \A k \in 1..Len(gantt) : gantt[k].endTime <= m

\* the number m is the quotient num / den (den > 0)
IsQuotient(m, num, den) ==
    m.kind = "fraction" /\ m.den > 0 /\ m.num * den = num * m.den

\* C21: in every result, with n completed processes and the total span the
\* largest interval end, averageWaitingTime is the sum of the waiting times
\* over n, averageTurnaroundTime the sum of the turnaround times over n,
\* throughput n over the span and cpuUtilization 100 times the sum of the burst
\* times over the span; the span is counted from time 0.
C21_Metrics ==
    (Returned /\ ValidInput) =>
        LET done == result.processes
            n == Len(done)
            span == TotalSpan(result.ganttChart)
        IN /\ IsQuotient(result.averageWaitingTime,
                         SumSeq([k \in 1..n |-> done[k].waitingTime]), n)
           /\ IsQuotient(result.averageTurnaroundTime,
                         SumSeq([k \in 1..n |-> done[k].turnaroundTime]), n)
           /\ IsQuotient(result.throughput, n, span)
           /\ IsQuotient(result.cpuUtilization,
                         100 * SumSeq([k \in 1..n |-> done[k].burstTime]), span)

\* an SJF result of two processes whose first interval starts after an idle gap
\* and whose second interval starts later still: the span is the end of the
\* second interval and is larger than the sum of the bursts
C21_Witness ==
    /\ Returned /\ ValidInput /\ algorithm = "SJF"
    /\ Len(result.processes) = 2
    /\ Len(result.ganttChart) = 2
    /\ result.ganttChart[1].startTime > 0
    /\ IsQuotient(result.throughput, 2, result.ganttChart[2].endTime)
    /\ result.ganttChart[2].endTime
          > result.processes[1].burstTime + result.processes[2].burstTime

(* -------------------------------- C22 --------------------------------- *)
\* the timeline leaves no time of [0, total span) idle
NoIdleGap(gantt) ==
    /\ gantt[1].startTime = 0
    /\ \A k \in 1..(Len(gantt) - 1) : gantt[k + 1].startTime = gantt[k].endTime

\* C22: in every result on a valid input cpuUtilization is greater than 0 and
\* at most 100, and it is 100 exactly when the timeline has no idle gap
\* anywhere from time 0 to the total span.
C22_UtilizationBound ==
    (Returned /\ ValidInput) =>
        LET u == result.cpuUtilization
        IN /\ u.kind = "fraction" /\ u.den > 0
           /\ 0 < u.num
           /\ u.num <= 100 * u.den
           /\ (u.num = 100 * u.den) <=> NoIdleGap(result.ganttChart)

\* the same statement for the runs that completed every process
C22_HoldsWhenAllComplete ==
    (Returned /\ ValidInput /\ Len(result.processes) = Len(processes)) =>
        LET u == result.cpuUtilization
        IN /\ u.kind = "fraction" /\ u.den > 0
           /\ 0 < u.num
           /\ u.num <= 100 * u.den
           /\ (u.num = 100 * u.den) <=> NoIdleGap(result.ganttChart)

(* -------------------------------- C23 --------------------------------- *)
\* C23: every call on a valid input (non-empty list, arrival >= 0, burst >= 1,
\* quantum >= 1 for Round Robin) reaches its return after finitely many steps.
C23_Terminates == (pc = "loop" /\ ValidInput) ~> (pc = "done")

\* a Round Robin call on two processes has returned after at least four
\* dispatches and an idle iteration before the first of them
C23_Witness ==
    /\ Returned /\ ValidInput /\ algorithm = "RR"
    /\ Len(processes) = 2
    /\ Len(result.ganttChart) >= 4
    /\ result.ganttChart[1].startTime > 0

DemoInput ==
    /\ Len(processes) = Len(demoProcesses)
    /\ \A i \in 1..Len(demoProcesses) :
          /\ processes[i].id = demoProcesses[i].id
          /\ processes[i].arrivalTime = demoProcesses[i].arrivalTime
          /\ processes[i].burstTime = demoProcesses[i].burstTime

\* C25: on P1(arrival 0, burst 8), P2(1, 4), P3(2, 9), P4(3, 5), in that order,
\* FCFS returns the timeline P1:0-8, P2:8-12, P3:12-21, P4:21-26, the waiting
\* times 0, 7, 10, 18 and the average waiting time 35/4 = 8.75.
C25_FcfsScenario ==
    (Returned /\ algorithm = "FCFS" /\ DemoInput) =>
        /\ result.ganttChart = << GanttItem(1, 0, 8), GanttItem(2, 8, 12),
                                  GanttItem(3, 12, 21), GanttItem(4, 21, 26) >>
        /\ Len(result.processes) = 4
        /\ \A i \in 1..4 : result.processes[i].id = i
        /\ [i \in 1..4 |-> result.processes[i].waitingTime] = <<0, 7, 10, 18>>
        /\ IsQuotient(result.averageWaitingTime, 35, 4)

\* FCFS has returned on the demo list, loaded by loadDemoData
C25_Witness ==
    /\ Returned /\ algorithm = "FCFS" /\ DemoInput
    /\ Len(result.ganttChart) = 4
    /\ result.ganttChart[4].endTime = 26

(* -------------------------------- C26 --------------------------------- *)
\* a returned Round Robin run of quantum 2 on the demo list
DemoRoundRobin ==
    Returned /\ algorithm = "RR" /\ timeQuantum = 2 /\ DemoInput

\* C26: on P1(arrival 0, burst 8), P2(1, 4), P3(2, 9), P4(3, 5) with quantum 2
\* the first three intervals Round Robin returns are P1:0-2, P2:2-4, P3:4-6.
C26_RoundRobinScenario ==
    DemoRoundRobin =>
        /\ Len(result.ganttChart) >= 3
        /\ SubSeq(result.ganttChart, 1, 3)
              = << GanttItem(1, 0, 2), GanttItem(2, 2, 4), GanttItem(3, 4, 6) >>

\* Round Robin of quantum 2 has returned on the demo list, its third interval
\* being P3's
C26_Witness ==
    /\ DemoRoundRobin
    /\ Len(result.ganttChart) >= 3
    /\ result.ganttChart[3].processId = 3

(* -------------------------------- C27 --------------------------------- *)
\* the intervals of one process, in timeline order
DispatchesOf(gantt, id) == SelectSeq(gantt, LAMBDA g : g.processId = id)

\* C27: on the demo list with quantum 2, P4 is in the ready queue before P1 is
\* put back into it, so that P4's first dispatch comes before P1's second.
C27_P4BeforeP1Again ==
    DemoRoundRobin =>
        LET gantt == result.ganttChart
        IN /\ Len(DispatchesOf(gantt, 4)) >= 1
           /\ Len(DispatchesOf(gantt, 1)) >= 2
           /\ DispatchesOf(gantt, 4)[1].startTime < DispatchesOf(gantt, 1)[2].startTime

\* C27 as the code has it: P4 arrives (at 3) after P1's first run has ended (at
\* 2) and during P2's first run; it enters the ready queue behind P1 and ahead
\* of P2, so that P1's second dispatch comes before P4's first, and P4's first
\* before P2's second.
C27_P4BehindP1 ==
    DemoRoundRobin =>
        LET gantt == result.ganttChart
            P1 == DispatchesOf(gantt, 1)
            P2 == DispatchesOf(gantt, 2)
            P4 == DispatchesOf(gantt, 4)
        IN /\ Len(P1) >= 2 /\ Len(P2) >= 2 /\ Len(P4) >= 1
           /\ P1[1].endTime < processes[4].arrivalTime
           /\ P2[1].startTime < processes[4].arrivalTime
           /\ processes[4].arrivalTime <= P2[1].endTime
           /\ P1[2].startTime < P4[1].startTime
           /\ P4[1].startTime < P2[2].startTime

\* the fourth and fifth intervals of that run: P1 again, then P4
C27_Witness ==
    /\ DemoRoundRobin
    /\ Len(result.ganttChart) >= 5
    /\ result.ganttChart[4] = GanttItem(1, 6, 8)
    /\ result.ganttChart[5] = GanttItem(4, 8, 10)

(* -------------------------------- C28 --------------------------------- *)
\* a returned run of non-preemptive Priority on the demo list with its
\* priorities 3, 1, 4, 2
DemoPriority ==
    /\ Returned /\ algorithm = "PRIORITY" /\ ~isPreemptive
    /\ processes = demoProcesses

\* the ids of a timeline's intervals, in order
ExecutionOrder(gantt) == [k \in 1..Len(gantt) |-> gantt[k].processId]

\* C28: on P1(arrival 0, burst 8, priority 3), P2(1, 4, 1), P3(2, 9, 4),
\* P4(3, 5, 2) non-preemptive Priority executes the processes in the order
\* P2, P4, P1, P3.
C28_PriorityOrderOnly ==
    DemoPriority => ExecutionOrder(result.ganttChart) = <<2, 4, 1, 3>>

\* C28 as the code has it: P1, the only process that has arrived at 0, runs
\* first and to its end; the others follow in priority order: P1, P2, P4, P3.
C28_PriorityScenario ==
    DemoPriority =>
        result.ganttChart = << GanttItem(1, 0, 8), GanttItem(2, 8, 12),
                               GanttItem(4, 12, 17), GanttItem(3, 17, 26) >>

\* non-preemptive Priority has returned on the demo list, P1 having run first
C28_Witness ==
    /\ DemoPriority
    /\ Len(result.ganttChart) = 4
    /\ result.ganttChart[1].processId = 1
    /\ result.ganttChart[1].startTime = 0

(* -------------------------------- C29 --------------------------------- *)
\* the process list has pairwise distinct ids, no negative arrival time and no
\* burst time below 1
ValidList ==
    /\ \A i, j \in 1..Len(processes) : processes[i].id = processes[j].id => i = j
    /\ \A i \in 1..Len(processes) :
          /\ processes[i].arrivalTime >= 0
          /\ processes[i].burstTime >= 1

\* addProcess with a form that fails validateProcess leaves the list as it was
\* and sets validationError to a message
RejectedAddKeepsList ==
    (pc # "loop" /\ Len(processes) < MaxProcs) =>
        \A newProcess \in NewProcesses :
            Len(validateProcess(newProcess)) > 0 =>
                /\ addProcessList(newProcess) = processes
                /\ addProcessError(newProcess) # ""

\* C29: whatever the page's handlers (addProcess, removeProcess, loadDemoData,
\* generateRandomData, clearProcesses, handleAlgorithmChange) have done, the
\* process list has pairwise distinct ids, every arrivalTime >= 0 and every
\* burstTime >= 1; and a rejected addProcess leaves the list unchanged and sets
\* validationError.
C29_ListStaysValid == ValidList /\ RejectedAddKeepsList

\* the list holds one process, added through the form, and the addition of a
\* second one has just been rejected because its id, trimmed, is the first's
C29_Witness ==
    /\ Len(processes) = 1
    /\ processes[1].id = 1
    /\ validationError = "Process ID must be unique"
    /\ pc = "idle"

(* -------------------------------- C30 --------------------------------- *)
\* the timeline of the tick loops, while they run and as returned
TickTimeline == IF Returned THEN result.ganttChart ELSE ganttChart

\* no two consecutive intervals could have been one: intervals follow one
\* another in time, each at least one tick long, and where one ends as the next
\* starts the two are of different processes
TimelineCoalesced ==
    TickDriven =>
        LET gantt == TickTimeline
        IN /\ \A k \in 1..Len(gantt) : gantt[k].startTime < gantt[k].endTime
           /\ \A k \in 1..(Len(gantt) - 1) :
                 /\ gantt[k].endTime <= gantt[k + 1].startTime
                 /\ ~(/\ gantt[k].processId = gantt[k + 1].processId
                      /\ gantt[k].endTime = gantt[k + 1].startTime)

\* a tick given to a process opens an interval (of that one tick) exactly when
\* the timeline is empty, its last interval is another process's, or an idle
\* tick has passed since that interval's end; otherwise it moves the end of the
\* last interval by the tick and leaves everything else of the timeline
TickOpensOrExtends ==
    (TickDriven /\ pc = "loop" /\ ganttChart' # ganttChart) =>
        LET ticked == ganttChart'[Len(ganttChart')]
            opens == \/ ganttChart = <<>>
                     \/ LastInterval.processId # ticked.processId
                     \/ LastInterval.endTime < currentTime
        IN /\ currentTime' = currentTime + 1
           /\ ticked.endTime = currentTime'
           /\ IF opens
              THEN /\ ganttChart' = Append(ganttChart, ticked)
                   /\ ticked.startTime = currentTime
              ELSE /\ Len(ganttChart') = Len(ganttChart)
                   /\ ganttChart' = [ganttChart EXCEPT ![Len(ganttChart)].endTime = currentTime']

\* C30: in the timeline of SRTF and of preemptive Priority no two consecutive
\* intervals have the same process id with the first one's endTime equal to
\* the second one's startTime; every interval is a maximal run of consecutive
\* ticks of one process, a new interval being opened exactly when the process
\* changes or an idle tick intervenes.
C30_Coalescing == []TimelineCoalesced /\ [][TickOpensOrExtends]_vars

\* a returned SRTF timeline in which the first process was preempted after more
\* than one tick and ran again later: three intervals, the first and the third
\* of one process, the first two ticks long or longer
C30_Witness ==
    /\ Returned /\ algorithm = "SRTF"
    /\ Len(result.ganttChart) = 3
    /\ result.ganttChart[1].processId = result.ganttChart[3].processId
    /\ result.ganttChart[1].processId # result.ganttChart[2].processId
    /\ result.ganttChart[1].endTime - result.ganttChart[1].startTime >= 2

(* -------------------------------- C31 --------------------------------- *)
\* the length the k-th interval of a process of burst time b has under quantum
\* q: the quantum, or what remains after k - 1 quanta if that is less
DispatchLength(b, q, k) == IF b - q * (k - 1) < q THEN b - q * (k - 1) ELSE q

\* C31: Round Robin with a quantum >= 1 pushes one interval per dispatch, as
\* long as the smaller of the quantum and the time that remained at the
\* dispatch, and merges none with its neighbour: the intervals of a process so
\* far account for the time it has run, each is a quantum long except possibly
\* the last, and in the result a process of burst b has ceil(b / quantum) of them.
C31_OneIntervalPerDispatch ==
    (algorithm = "RR" /\ ValidInput) =>
        \A i \in 1..Len(processes) :
            LET own == Durations(ganttChart, processes[i].id)
                b == processes[i].burstTime
            IN /\ \A k \in 1..Len(own) : own[k] = DispatchLength(b, timeQuantum, k)
               /\ SumSeq(own) = b - processQueue[i].remainingTime
               /\ Returned =>
                     /\ result.ganttChart = ganttChart
                     /\ Len(own) = (b + timeQuantum - 1) \div timeQuantum

\* a returned Round Robin run of a single process that ran twice in a row, the
\* second time for less than the quantum: two intervals, the second starting
\* where the first ended
C31_Witness ==
    /\ Returned /\ algorithm = "RR" /\ ValidInput
    /\ timeQuantum >= 2
    /\ Len(processes) = 1
    /\ Len(result.ganttChart) >= 2
    /\ result.ganttChart[1].endTime = result.ganttChart[2].startTime
    /\ result.ganttChart[2].endTime - result.ganttChart[2].startTime < timeQuantum

(* -------------------------------- C32 --------------------------------- *)
\* the first dispatches of a returned Round Robin run are in arrival order
FirstDispatchesInArrivalOrder ==
    \A i, j \in 1..Len(processes) :
        processes[i].arrivalTime < processes[j].arrivalTime =>
            FirstDispatch(result.ganttChart, i) < FirstDispatch(result.ganttChart, j)

\* C32: in a Round Robin result, of two processes the one that arrived earlier
\* is dispatched first: its first interval starts before the other's.
C32_ArrivalOrder ==
    (Returned /\ algorithm = "RR" /\ ValidInput) => FirstDispatchesInArrivalOrder

\* the input array is in ascending order of arrival time
InputInArrivalOrder ==
    \A i, j \in 1..Len(processes) :
        i < j => processes[i].arrivalTime <= processes[j].arrivalTime

\* on an input array that is in arrival order the first dispatches are too
C32_HoldsOnSortedInput ==
    (Returned /\ algorithm = "RR" /\ ValidInput /\ InputInArrivalOrder) =>
        FirstDispatchesInArrivalOrder

(* -------------------------------- C33 --------------------------------- *)
\* the units of time [t, t + 1) before the end of the timeline that no interval
\* covers
IdleUnits(gantt) ==
    {t \in 0..(TotalSpan(gantt) - 1) :
        \A k \in 1..Len(gantt) : ~(gantt[k].startTime <= t /\ t < gantt[k].endTime)}

\* the time the process with this id has run in intervals that end by t
RunBy(gantt, id, t) ==
    LET own == SelectSeq(gantt, LAMBDA g : g.processId = id /\ g.endTime <= t)
    IN SumSeq([k \in 1..Len(own) |-> own[k].endTime - own[k].startTime])

\* C33: in the timeline returned on a valid input the processor is idle in a
\* unit of time [t, t + 1) only if every process that has arrived by t has
\* already run for its whole burst time.
C33_WorkConserving ==
    (Returned /\ ValidInput) =>
        \A t \in IdleUnits(result.ganttChart) :
            \A i \in 1..Len(processes) :
                processes[i].arrivalTime <= t =>
                    RunBy(result.ganttChart, processes[i].id, t) = processes[i].burstTime

\* a returned timeline with an idle unit between two of its intervals, the
\* process of the first having finished and that of the second not yet arrived
C33_Witness ==
    /\ Returned /\ ValidInput
    /\ Len(result.ganttChart) = 2
    /\ result.ganttChart[1].startTime = 0
    /\ result.ganttChart[1].endTime < result.ganttChart[2].startTime
    /\ result.ganttChart[1].endTime \in IdleUnits(result.ganttChart)

(* -------------------------------- C34 --------------------------------- *)
\* the ready queue of Round Robin at the head of an iteration, after the scan
\* for arrivals: positions in processQueue
ReadyAtHead == ArriveAt(readyQueue, processQueue, 1, currentTime)

\* C34: at the head of every iteration of the Round Robin loop, after the scan
\* for arrivals, with a quantum >= 1, the ready queue holds no process twice,
\* holds no process whose remaining time is 0, and holds exactly the processes
\* that have arrived by the clock and have time remaining.
C34_ReadyQueue ==
    (algorithm = "RR" /\ pc = "loop" /\ ValidInput) =>
        LET ready == ReadyAtHead
        IN /\ \A k, l \in 1..Len(ready) : ready[k] = ready[l] => k = l
           /\ \A k \in 1..Len(ready) : processQueue[ready[k]].remainingTime > 0
           /\ {ready[k] : k \in 1..Len(ready)}
                 = {i \in 1..Len(processQueue) :
                       /\ processQueue[i].arrivalTime <= currentTime
                       /\ processQueue[i].remainingTime > 0}

\* the head of an iteration after a dispatch that did not complete its process:
\* another process, arrived meanwhile, is in the queue ahead of the one put back
C34_Witness ==
    /\ algorithm = "RR" /\ pc = "loop" /\ ValidInput
    /\ ganttChart # <<>>
    /\ Len(ReadyAtHead) = 2
    /\ ReadyAtHead[2] = IndexOfId(processes, LastInterval.processId)
    /\ processQueue[ReadyAtHead[1]].arrivalTime > 0

(* -------------------------------- C35 --------------------------------- *)
\* a handler changes the process list, the algorithm, the quantum or the mode
InputsChange ==
    /\ pc # "loop"
    /\ \/ processes' # processes
       \/ algorithm' # algorithm
       \/ timeQuantum' # timeQuantum
       \/ isPreemptive' # isPreemptive

\* a run started while a result is displayed returns that same result: the
\* displayed result was the output for the list, algorithm, quantum and mode
\* the run was started on
RerunGivesDisplayed == (Return /\ result.kind = "result") => result' = result

\* C35: a displayed result is the output of the selected algorithm on the
\* current process list, quantum and mode (running again returns it), and every
\* action that changes the list, the algorithm, the quantum or the mode clears
\* the result.
C35_ResultFresh ==
    [][RerunGivesDisplayed /\ (InputsChange => result' = NoResult)]_vars

\* the changes other than those of addProcess, of the quantum input and of the
\* mode select do clear the result
C35_OtherChangesClear ==
    [][(InputsChange /\ ~addProcess /\ ~setTimeQuantum /\ ~setIsPreemptive)
          => result' = NoResult]_vars

\* C36: in every state the page shows (no scheduling function in the middle of
\* its run), isRunning is true only while the chart's animation is playing:
\* isAnimating is true and a result is displayed. So the Run Algorithm button is
\* not left disabled with no result, or with the animation stopped at its end.
C36_RunningOnlyWhilePlaying ==
    (pc # "loop" /\ chart.isRunning) => (chart.isAnimating /\ result # NoResult)

\* C37: wherever a result is displayed, the chart's clock lies between 0 and
\* maxTime, the largest interval end of the displayed result.
C37_ClockWithinTimeline ==
    ChartShown => (0 <= chart.currentTime /\ chart.currentTime <= chartMaxTime)

\* half a time unit, in tenths
HalfUnit == Tenths \div 2

\* the clock values at which the panel is looked at: the start and the middle of
\* every time unit, from 0 to the end of the timeline (interval boundaries,
\* arrivals and completions are whole numbers)
ClockValues(res) ==
    {k * HalfUnit :
        k \in 0..(2 * (IF res.ganttChart = <<>> THEN 0 ELSE MaxOf(EndTimes(res.ganttChart))))}

PanelStates == {"not-arrived", "waiting", "executing", "completed"}

\* how far a state is on the way from not-arrived to completed
Stage(state) ==
    CASE state = "not-arrived" -> 0
      [] state = "waiting" -> 1
      [] state = "executing" -> 1
      [] state = "completed" -> 2

\* C38: for a result on valid input and every clock value, each process of the
\* result is in exactly one of the panel's four lists, at most one process is
\* executing, and from one clock value to the next no process moves back: not
\* from completed to another state, nor from waiting or executing to not-arrived.
C38_PanelConsistent ==
    (Returned /\ ValidInput) =>
        \E panel \in {[t \in ClockValues(result) \cup {HalfUnit + MaxOf(EndTimes(result.ganttChart)) * Tenths}
                         |-> getProcessStates(result, t)]} :
            \A t \in ClockValues(result) :
                /\ \A k \in DOMAIN panel[t] :
                      /\ Cardinality({st \in PanelStates : panel[t][k] = st}) = 1
                      /\ Stage(panel[t][k]) <= Stage(panel[t + HalfUnit][k])
                /\ Cardinality(StatesFilter(panel[t], "executing")) <= 1

\* two processes of one result: one executing while the other waits, later one
\* completed while the other executes, and at some time one not yet arrived
C38_Witness ==
    /\ Returned /\ ValidInput
    /\ Len(result.processes) = 2
    /\ \E t \in ClockValues(result) : \E now \in {getProcessStates(result, t)} :
          /\ StatesFilter(now, "executing") # {}
          /\ StatesFilter(now, "waiting") # {}
    /\ \E t \in ClockValues(result) : \E now \in {getProcessStates(result, t)} :
          /\ StatesFilter(now, "completed") # {}
          /\ StatesFilter(now, "executing") # {}
    /\ \E t \in ClockValues(result) :
          StatesFilter(getProcessStates(result, t), "not-arrived") # {}

\* C39: every interval of a returned timeline has one of the ten colours of the
\* palette, for every id the form accepts, an id without a digit included.
C39_EveryIntervalColoured ==
    Returned =>
        \A i \in 1..Len(result.ganttChart) :
            \E c \in 1..Len(colors) : colorOf(result.ganttChart[i]) = colors[c]

\* the same for the intervals of the processes whose id has a digit
C39_NumberedIdsColoured ==
    Returned =>
        \A i \in 1..Len(result.ganttChart) :
            DigitsOnly(IdText(result.ganttChart[i].processId)) # <<>>
                => \E c \in 1..Len(colors) : colorOf(result.ganttChart[i]) = colors[c]

====
